---- MODULE Spec2Model ----
(***************************************************************************)
(* ChannelResponseFilter of mt_metadata                                    *)
(* (src/mt_metadata/timeseries/filters/channel_response_filter.py).        *)
(*                                                                         *)
(* One engine object is modelled: its stored chain, its stored frequency   *)
(* grid and its pinned normalization frequency, together with the name,    *)
(* the arguments and the outcome of the last call made on it.  Three       *)
(* collaborators are modelled beside it, each under a specification of its *)
(* own: the survey list of an Experiment (timeseries/experiment.py), the   *)
(* band list of a DecimationLevel (transfer_functions/processing/aurora/   *)
(* decimation_level.py) and the comment parser of BaseTranslator           *)
(* (timeseries/stationxml/utils.py).                                       *)
(*                                                                         *)
(* Encoding of Python values.  Every optional or polymorphic value is a    *)
(* record [t |-> tag, v |-> sequence] so that any two of them can be       *)
(* compared:  None is [t |-> "None", v |-> <<>>], a frequency sequence is  *)
(* [t |-> "list" | "tuple" | "ndarray", v |-> <<f1, ..., fn>>], a scalar   *)
(* is [t |-> "float", v |-> <<x>>].  Frequencies and the real numbers a    *)
(* call returns are integers counting thousandths, so that rounding to     *)
(* three decimals is rounding to an integer.  A complex number is a pair   *)
(* <<re, im>> of integers.  A gain, and the response of one stage, counts  *)
(* hundredths; the product of the responses of n stages counts 100^-n.     *)
(***************************************************************************)
EXTENDS Integers, Sequences, FiniteSets

VARIABLES
    filters_list,             \* self._filters_list : sequence of stages
    frequencies,              \* self._frequencies  : None or ndarray
    normalization_frequency,  \* self._normalization_frequency : None or float
    lastOp,                   \* name of the last call
    lastArgs,                 \* its arguments
    result,                   \* what it returned or raised
    surveys,                  \* Experiment._surveys : sequence of surveys
    bands,                    \* DecimationLevel._bands : sequence of bands
    filled                    \* the default accumulators of the parse
                              \* functions defined so far, newest last

vars == <<filters_list, frequencies, normalization_frequency,
          lastOp, lastArgs, result, surveys, bands, filled>>

\* The state of the objects beside the engine.
collaborators == <<surveys, bands, filled>>

\* Longest chain handed to the filters_list setter.
MaxChain == 3

\* Longest list of bands handed to the bands setter or kept by add_band.
MaxBands == 3

\* Number of read_xml_comment calls followed.
MaxCalls == 2

-----------------------------------------------------------------------------
(* Python values *)

NoneV == [t |-> "None", v |-> <<>>]

Float(x) == [t |-> "float", v |-> <<x>>]

NdArray(s) == [t |-> "ndarray", v |-> s]

IsNone(x) == x.t = "None"

Range(s) == {s[i] : i \in 1..Len(s)}

SetMax(S) == CHOOSE m \in S : \A x \in S : x <= m

SetMin(S) == CHOOSE m \in S : \A x \in S : m <= x

\* The subsequences of s: some elements of s, in the order of s.
RECURSIVE SubSeqs(_)
SubSeqs(s) ==
    IF s = <<>> THEN {<<>>}
    ELSE LET rest == SubSeqs(Tail(s))
         IN  rest \cup {<<Head(s)>> \o x : x \in rest}

-----------------------------------------------------------------------------
(* Filter stages.  cls is the Python class of the object, type its type    *)
(* attribute.  has_pass_band says whether the object has a pass_band       *)
(* method; band is the stage's nominal band <<low, high>>, or <<>> for a   *)
(* stage whose pass_band method returns None.                              *)

Stage(name, cls, type, uin, uout, gain, delay, dec, hasPb, band) ==
    [name |-> name, cls |-> cls, type |-> type,
     units_in |-> uin, units_out |-> uout,
     gain |-> gain, delay |-> delay, decimation_active |-> dec,
     has_pass_band |-> hasPb, band |-> band,
     comments |-> <<"about", name>>]

PZ    == Stage("pz", "PoleZeroFilter", "zpk", "nT", "mV",
               50, 0, FALSE, TRUE, <<1, 2>>)
COEF  == Stage("coef", "CoefficientFilter", "coefficient", "mV", "V",
               125, 0, FALSE, TRUE, <<>>)
DELAY == Stage("delay", "TimeDelayFilter", "time delay", "V", "V",
               100, 1, FALSE, FALSE, <<>>)
FIR   == Stage("fir", "FIRFilter", "fir", "V", "count",
               50, 0, TRUE, TRUE, <<3, 3>>)
ADC   == Stage("adc", "CoefficientFilter", "coefficient", "V", "count",
               5, 0, FALSE, TRUE, <<2, 3>>)
\* An object that is not a filter.
NOTAFILTER == Stage("str", "str", "str", "", "", 0, 0, FALSE, FALSE, <<>>)

\* A second time delay stage, with another delay.
LAG   == Stage("lag", "TimeDelayFilter", "time delay", "V", "V",
               100, 3, FALSE, FALSE, <<>>)

\* The objects a caller may put in a list, in the order of the instrument.
FilterItems == <<PZ, NOTAFILTER, COEF, DELAY, FIR, ADC>>

\* Values handed to the filters_list setter: None, objects that are not
\* lists, and the lists of at most MaxChain of the objects above.
FilterInputs ==
    {NoneV, [t |-> "tuple", v |-> <<>>], [t |-> "tuple", v |-> <<PZ>>],
     [t |-> "str", v |-> <<>>]}
    \cup {[t |-> "list", v |-> c] :
             c \in {x \in SubSeqs(FilterItems) : Len(x) <= MaxChain}}

\* The chains the engine can hold.
Chains ==
    {x \in SubSeqs(SelectSeq(FilterItems, LAMBDA f : f # NOTAFILTER)) :
        Len(x) <= MaxChain}

\* Values handed to the frequencies setter.
FrequencyInputs ==
    {NoneV,
     [t |-> "list", v |-> <<1>>],
     [t |-> "ndarray", v |-> <<1, 2, 3>>],
     [t |-> "tuple", v |-> <<3, 2>>],
     Float(2)}

\* Values handed to normalization_frequency.
NormalizationInputs == {NoneV, Float(1), Float(2)}

\* Stand-in for np.logspace(-4, 4, 100): an increasing grid.
DefaultFrequencies == NdArray(<<1, 2, 3>>)

-----------------------------------------------------------------------------
(* Outcomes of a call *)

NoArgs ==
    [frequencies |-> NoneV, include_delay |-> FALSE, normalize |-> FALSE,
     include_decimation |-> FALSE, value |-> NoneV]

Outcome(kind, exc, h, den, val, msg) ==
    [kind |-> kind, exc |-> exc, h |-> h, den |-> den,
     val |-> val, msg |-> msg, stages |-> <<>>]

Raise(exc) == Outcome("raise", exc, <<>>, 1, <<>>, <<>>)

RaiseMsg(exc, msg) == Outcome("raise", exc, <<>>, 1, <<>>, msg)

\* A complex array h, every element divided by den.
ReturnArray(h, den) == Outcome("array", "", h, den, <<>>, <<>>)

\* A real array or a real scalar.
ReturnReal(val) == Outcome("real", "", <<>>, 1, val, <<>>)

ReturnNone == Outcome("None", "", <<>>, 1, <<>>, <<>>)

ReturnTrue == Outcome("True", "", <<>>, 1, <<>>, <<>>)

\* A string.
ReturnStr(str) == Outcome("str", "", <<>>, 1, <<>>, <<str>>)

\* An obspy Response: the instrument sensitivity header (value, frequency,
\* input and output units) and the response stages.
ReturnResponse(val, units, stages) ==
    [Outcome("response", "", <<>>, 1, val, units) EXCEPT !.stages = stages]

\* A Python list of stages handed to the caller.
ReturnList(list) ==
    [Outcome("list", "", <<>>, 1, <<>>, <<>>) EXCEPT !.stages = list]

-----------------------------------------------------------------------------
(* Stage primitives: what a filter object does when the engine calls it.   *)

CMul(a, b) == <<a[1] * b[1] - a[2] * b[2], a[1] * b[2] + a[2] * b[1]>>

\* (-i)^k, in hundredths
Rot(k) ==
    IF k % 4 = 0 THEN <<100, 0>>
    ELSE IF k % 4 = 1 THEN <<0, -100>>
    ELSE IF k % 4 = 2 THEN <<-100, 0>>
    ELSE <<0, 100>>

RECURSIVE Pow10(_)
Pow10(n) == IF n = 0 THEN 1 ELSE 10 * Pow10(n - 1)

\* a / d rounded to the nearest integer, halves to the even neighbour, as
\* np.round does.
RoundDiv(a, d) ==
    LET q == a \div d
        r == a % d
    IN  IF 2 * r < d THEN q
        ELSE IF 2 * r > d THEN q + 1
        ELSE IF q % 2 = 0 THEN q ELSE q + 1

\* Response of one stage at one frequency f: a time delay is a pure
\* rotation, a pole-zero stage has one zero at the origin, every other
\* stage is a flat gain.
StageResponseAt(s, f) ==
    IF s.type = "time delay" THEN Rot(s.delay * f)
    ELSE IF s.type = "zpk" THEN <<0, s.gain * f>>
    ELSE <<s.gain, 0>>

\* stage.complex_response(frequencies): a sequence is answered point by
\* point, a scalar by one point; None is not a frequency sequence and the
\* stage fails on it.
StageComplexResponse(s, freq) ==
    IF IsNone(freq) THEN Raise("TypeError")
    ELSE ReturnArray([i \in 1..Len(freq.v) |-> StageResponseAt(s, freq.v[i])], 1)

\* stage.pass_band(frequencies): the grid points inside the stage's nominal
\* band, None when there are none.
StagePassBand(s, grid) ==
    IF s.band = <<>> THEN <<>>
    ELSE SelectSeq(grid, LAMBDA f : s.band[1] <= f /\ f <= s.band[2])

\* stage.to_obspy(stage_number, normalization_frequency, sample_rate): the
\* response stage made from filter f.
StageToObspy(f, stage_number, nf, sample_rate) ==
    [stage_number |-> stage_number, normalization_frequency |-> nf,
     sample_rate |-> sample_rate, filter |-> f]

\* |z| for z on the real or the imaginary axis.
CAbs(z) ==
    (IF z[1] < 0 THEN -z[1] ELSE z[1]) + (IF z[2] < 0 THEN -z[2] ELSE z[2])

-----------------------------------------------------------------------------
(* ChannelResponseFilter *)

ACCEPTABLE_FILTERS ==
    {"PoleZeroFilter", "CoefficientFilter", "TimeDelayFilter",
     "FrequencyResponseTableFilter", "FIRFilter"}

is_acceptable_filter(item) == item.cls \in ACCEPTABLE_FILTERS

\* _validate_filters_list keeping the acceptable items of a list instead of
\* refusing the list.
validate_filters_list_KeepsValid(input) ==
    IF IsNone(input) \/ (input.t = "list" /\ input.v = <<>>)
    THEN [ok |-> TRUE, list |-> <<>>]
    ELSE IF input.t # "list"
    THEN [ok |-> FALSE, list |-> <<>>]
    ELSE [ok |-> TRUE, list |-> SelectSeq(input.v, is_acceptable_filter)]

\* _validate_filters_list: the list to store, or the exception raised.
validate_filters_list(input) ==
    IF IsNone(input) \/ (input.t = "list" /\ input.v = <<>>)
    THEN [ok |-> TRUE, list |-> <<>>]
    ELSE IF input.t # "list"
    THEN [ok |-> FALSE, list |-> <<>>]
    ELSE LET return_list == SelectSeq(input.v, is_acceptable_filter)
             fails == SelectSeq(input.v, LAMBDA x : ~is_acceptable_filter(x))
         IN  IF fails # <<>> THEN [ok |-> FALSE, list |-> <<>>]
             ELSE [ok |-> TRUE, list |-> return_list]

non_delay_filters(chain) == SelectSeq(chain, LAMBDA x : x.type # "time delay")

\* delay_filters handing out every stage.
delay_filters_All(chain) == chain

\* delay_filters (lines 197-206)
delay_filters(chain) == SelectSeq(chain, LAMBDA x : x.type = "time delay")

\* All sequences over S of length at most n.
SeqsUpTo(S, n) == UNION {[1..k -> S] : k \in 0..n}

\* Chains with up to two kinds of time delay stage among other stages.
ViewChains == SeqsUpTo({PZ, DELAY, COEF, LAG}, MaxChain)

\* total_delay keeping the delay of the last time delay stage only.
total_delay_LastOnly(chain) ==
    LET d == delay_filters(chain)
    IN  ReturnReal(<<IF d = <<>> THEN 0 ELSE d[Len(d)].delay>>)

\* total_delay (lines 208-220)
RECURSIVE SumOfDelays(_)
SumOfDelays(d) ==
    IF d = <<>> THEN 0 ELSE d[1].delay + SumOfDelays(Tail(d))

total_delay(chain) == ReturnReal(<<SumOfDelays(delay_filters(chain))>>)

\* Whether the list a read hands out is the stored list itself: the
\* filters_list getter returns self._filters_list (line 63), the two views
\* return the list their comprehension has built (lines 194, 205).
ViewIsStored(op) == op = "filters_list"

\* The list complex_response walks through.
WorkingChain(chain, include_delay, include_decimation) ==
    LET byDelay == IF include_delay THEN chain ELSE non_delay_filters(chain)
    IN  IF ~include_decimation
        THEN SelectSeq(byDelay, LAMBDA x : ~x.decimation_active)
        ELSE byDelay

\* The list complex_response pops from is the stored list itself when no
\* comprehension has copied it.
WorkingChainIsStored(include_delay, include_decimation) ==
    include_delay /\ include_decimation

\* Elementwise product of the stages' responses at the points of freq,
\* stage by stage in the order of the list.
RECURSIVE ChainProduct(_, _)
ChainProduct(chain, freq) ==
    IF chain = <<>> THEN [i \in 1..Len(freq.v) |-> <<1, 0>>]
    ELSE LET front == ChainProduct(SubSeq(chain, 1, Len(chain) - 1), freq)
             last  == StageComplexResponse(chain[Len(chain)], freq).h
         IN  [i \in 1..Len(freq.v) |-> CMul(front[i], last[i])]

\* The magnitude of the first point instead of the largest one.
PeakMagnitude_First(h) == CAbs(h[1])

\* np.max(np.abs(result))
PeakMagnitude(h) == SetMax({CAbs(h[i]) : i \in 1..Len(h)})

-----------------------------------------------------------------------------
(* The engine's properties, as functions of its state.  Each yields the    *)
(* outcome of reading the property.                                        *)

\* pass_band putting the smaller bound first.
pass_band_Ordered(chain, grid) ==
    IF IsNone(grid) THEN Raise("ValueError")
    ELSE LET contributing ==
                 SelectSeq(chain, LAMBDA f :
                     f.has_pass_band /\ StagePassBand(f, grid.v) # <<>>)
             pb == [i \in 1..Len(contributing) |->
                       LET f_pb == StagePassBand(contributing[i], grid.v)
                       IN  <<SetMin(Range(f_pb)), SetMax(Range(f_pb))>>]
             low == SetMax({pb[i][1] : i \in 1..Len(pb)})
             high == SetMin({pb[i][2] : i \in 1..Len(pb)})
         IN  IF pb = <<>> THEN Raise("IndexError")
             ELSE ReturnReal(<<SetMin({low, high}), SetMax({low, high})>>)

\* pass_band answering None when no grid is stored.
pass_band_NoGridCheck(chain, grid) ==
    IF IsNone(grid) THEN ReturnNone
    ELSE pass_band_Ordered(chain, grid)

\* pass_band (lines 150-167).  "pb is not []" is true of every pb, so an
\* empty pb reaches the two-dimensional index and fails there.
pass_band(chain, grid) ==
    IF IsNone(grid) THEN Raise("ValueError")
    ELSE LET contributing ==
                 SelectSeq(chain, LAMBDA f :
                     f.has_pass_band /\ StagePassBand(f, grid.v) # <<>>)
             pb == [i \in 1..Len(contributing) |->
                       LET f_pb == StagePassBand(contributing[i], grid.v)
                       IN  <<SetMin(Range(f_pb)), SetMax(Range(f_pb))>>]
         IN  IF pb = <<>> THEN Raise("IndexError")
             ELSE ReturnReal(<<SetMax({pb[i][1] : i \in 1..Len(pb)}),
                               SetMin({pb[i][2] : i \in 1..Len(pb)})>>)

\* np.round(x / 2, decimals=3) of a sum x of two frequencies.
RoundHalf(x) == RoundDiv(x, 2)

\* normalization_frequency getter deriving the value from the pass band
\* whenever there is one, pinned or not.
get_normalization_frequency_Derives(chain, grid, pinned) ==
    LET pb == pass_band(chain, grid)
    IN  IF pb.kind # "raise"
        THEN ReturnReal(<<RoundHalf(pb.val[1] + pb.val[2])>>)
        ELSE IF IsNone(pinned) THEN pb
        ELSE ReturnReal(pinned.v)

\* normalization_frequency getter (lines 169-178)
get_normalization_frequency(chain, grid, pinned) ==
    IF IsNone(pinned)
    THEN LET pb == pass_band(chain, grid)
         IN  IF pb.kind = "raise" THEN pb
             ELSE ReturnReal(<<RoundHalf(pb.val[1] + pb.val[2])>>)
    ELSE ReturnReal(pinned.v)

\* check_consistency_of_units (lines 301-316): the index of the first stage
\* whose units_in differ from the units_out of the stage before it, 0 if
\* there is none.
RECURSIVE FirstMismatch(_, _)
FirstMismatch(chain, i) ==
    IF i > Len(chain) THEN 0
    ELSE IF chain[i].units_in # chain[i - 1].units_out THEN i
    ELSE FirstMismatch(chain, i + 1)

check_consistency_of_units(chain) ==
    IF chain = <<>> THEN Raise("IndexError")
    ELSE LET i == FirstMismatch(chain, 2)
         IN  IF i = 0 THEN ReturnTrue
             ELSE RaiseMsg("ValueError",
                           <<chain[i - 1].units_out, chain[i].units_in,
                             chain[i].name>>)

-----------------------------------------------------------------------------
(* Calls *)

Init ==
    /\ filters_list = <<>>
    /\ frequencies = DefaultFrequencies
    /\ normalization_frequency = NoneV
    /\ lastOp = "__init__"
    /\ lastArgs = NoArgs
    /\ result = ReturnNone
    /\ surveys = <<>>
    /\ bands = <<>>
    /\ filled = <<>>

\* filters_list setter (lines 65-68)
SetFilters ==
    /\ UNCHANGED collaborators
    /\ \E input \in FilterInputs :
           LET validated == validate_filters_list(input)
           IN  /\ lastOp' = "filters_list.setter"
               /\ lastArgs' = [NoArgs EXCEPT !.value = input]
               /\ IF validated.ok
                  THEN /\ filters_list' = validated.list
                       /\ result' = ReturnNone
                  ELSE /\ filters_list' = filters_list
                       /\ result' = Raise("TypeError")
               /\ UNCHANGED <<frequencies, normalization_frequency>>

\* frequencies setter wrapping a scalar into an array instead of refusing it.
set_frequencies_AcceptsScalar(value) ==
    IF IsNone(value) THEN [ok |-> TRUE, stored |-> NoneV]
    ELSE [ok |-> TRUE, stored |-> NdArray(value.v)]

\* frequencies setter (lines 75-95): what is stored for value, or the error.
set_frequencies(value) ==
    IF IsNone(value) THEN [ok |-> TRUE, stored |-> NoneV]
    ELSE IF value.t \in {"list", "tuple", "ndarray"}
    THEN [ok |-> TRUE, stored |-> NdArray(value.v)]
    ELSE [ok |-> FALSE, stored |-> NoneV]

SetFrequencies ==
    /\ UNCHANGED collaborators
    /\ \E value \in FrequencyInputs :
           LET set == set_frequencies(value)
           IN  /\ lastOp' = "frequencies.setter"
               /\ lastArgs' = [NoArgs EXCEPT !.value = value]
               /\ IF set.ok
                  THEN /\ frequencies' = set.stored
                       /\ result' = ReturnNone
                  ELSE /\ frequencies' = frequencies
                       /\ result' = Raise("TypeError")
               /\ UNCHANGED <<filters_list, normalization_frequency>>

\* normalization_frequency setter (lines 180-184)
SetNormalizationFrequency ==
    /\ UNCHANGED collaborators
    /\ \E value \in NormalizationInputs :
           /\ lastOp' = "normalization_frequency.setter"
           /\ lastArgs' = [NoArgs EXCEPT !.value = value]
           /\ normalization_frequency' = value
           /\ result' = ReturnNone
           /\ UNCHANGED <<filters_list, frequencies>>

\* pass_band read
PassBand ==
    /\ UNCHANGED collaborators
    /\ /\ lastOp' = "pass_band"
       /\ lastArgs' = NoArgs
       /\ result' = pass_band(filters_list, frequencies)
       /\ UNCHANGED <<filters_list, frequencies, normalization_frequency>>

\* normalization_frequency read
NormalizationFrequency ==
    /\ UNCHANGED collaborators
    /\ /\ lastOp' = "normalization_frequency"
       /\ lastArgs' = NoArgs
       /\ result' = get_normalization_frequency(filters_list, frequencies,
                                                 normalization_frequency)
       /\ UNCHANGED <<filters_list, frequencies, normalization_frequency>>

\* check_consistency_of_units read
CheckConsistencyOfUnits ==
    /\ UNCHANGED collaborators
    /\ /\ lastOp' = "check_consistency_of_units"
       /\ lastArgs' = NoArgs
       /\ result' = check_consistency_of_units(filters_list)
       /\ UNCHANGED <<filters_list, frequencies, normalization_frequency>>

\* complex_response evaluating at the argument without storing it.
complex_response_KeepsGrid(chain, grid, freq, include_delay, normalize, include_decimation) ==
    LET set == set_frequencies(freq)
        grid1 == grid
        working == WorkingChain(chain, include_delay, include_decimation)
        stored == WorkingChainIsStored(include_delay, include_decimation)
        h == ChainProduct(working, freq)
    IN  IF ~IsNone(freq) /\ ~set.ok
        THEN [chain |-> chain, grid |-> grid, out |-> Raise("TypeError")]
        ELSE IF working = <<>>
        THEN [chain |-> chain, grid |-> grid1,
              out |-> IF IsNone(freq) THEN Raise("TypeError")
                      ELSE ReturnArray([i \in 1..Len(freq.v) |-> <<1, 0>>], 1)]
        ELSE IF StageComplexResponse(Head(working), freq).kind = "raise"
        THEN [chain |-> IF stored THEN Tail(chain) ELSE chain,
              grid |-> grid1,
              out |-> StageComplexResponse(Head(working), freq)]
        ELSE [chain |-> IF stored THEN <<>> ELSE chain,
              grid |-> grid1,
              out |-> IF ~normalize
                      THEN ReturnArray(h, Pow10(2 * Len(working)))
                      ELSE IF h = <<>> THEN Raise("ValueError")
                      ELSE ReturnArray(h, PeakMagnitude(h))]

\* complex_response (lines 222-264): the stored chain and grid after the
\* call, and its outcome.  The stages and the all-ones array are evaluated
\* at the argument, not at the stored grid; the stages are popped off the
\* working list, which is the stored list when no comprehension copied it.
complex_response(chain, grid, freq, include_delay, normalize, include_decimation) ==
    LET set == set_frequencies(freq)
        grid1 == IF IsNone(freq) THEN grid ELSE set.stored
        working == WorkingChain(chain, include_delay, include_decimation)
        stored == WorkingChainIsStored(include_delay, include_decimation)
        h == ChainProduct(working, freq)
    IN  IF ~IsNone(freq) /\ ~set.ok
        THEN [chain |-> chain, grid |-> grid, out |-> Raise("TypeError")]
        ELSE IF working = <<>>
        THEN [chain |-> chain, grid |-> grid1,
              out |-> IF IsNone(freq) THEN Raise("TypeError")
                      ELSE ReturnArray([i \in 1..Len(freq.v) |-> <<1, 0>>], 1)]
        ELSE IF StageComplexResponse(Head(working), freq).kind = "raise"
        THEN [chain |-> IF stored THEN Tail(chain) ELSE chain,
              grid |-> grid1,
              out |-> StageComplexResponse(Head(working), freq)]
        ELSE [chain |-> IF stored THEN <<>> ELSE chain,
              grid |-> grid1,
              out |-> IF ~normalize
                      THEN ReturnArray(h, Pow10(2 * Len(working)))
                      ELSE IF h = <<>> THEN Raise("ValueError")
                      ELSE ReturnArray(h, PeakMagnitude(h))]

ComplexResponse ==
    /\ UNCHANGED collaborators
    /\ \E freq \in FrequencyInputs, include_delay \in BOOLEAN,
          normalize \in BOOLEAN, include_decimation \in BOOLEAN :
           LET call == complex_response(filters_list, frequencies, freq,
                                        include_delay, normalize,
                                        include_decimation)
           IN  /\ lastOp' = "complex_response"
               /\ lastArgs' = [NoArgs EXCEPT !.frequencies = freq,
                                             !.include_delay = include_delay,
                                             !.normalize = normalize,
                                             !.include_decimation = include_decimation]
               /\ filters_list' = call.chain
               /\ frequencies' = call.grid
               /\ result' = call.out
               /\ UNCHANGED normalization_frequency

\* Product of the stages' responses at the single frequency f.
RECURSIVE SensitivityProduct(_, _)
SensitivityProduct(chain, f) ==
    IF chain = <<>> THEN <<1, 0>>
    ELSE CMul(SensitivityProduct(SubSeq(chain, 1, Len(chain) - 1), f),
              StageComplexResponse(chain[Len(chain)], Float(f)).h[1])

\* np.round(x, 3) of the magnitude a of a product of n stage responses:
\* a counts 100^-n, the result counts thousandths.
Round3(a, n) ==
    IF n = 0 THEN 1000 * a
    ELSE IF n = 1 THEN 10 * a
    ELSE RoundDiv(a, Pow10(2 * n - 3))

\* compute_instrument_sensitivity evaluating the stages at the first point
\* of the frequency grid when there is a grid.
compute_instrument_sensitivity_AtGrid(chain, grid, pinned, arg) ==
    LET pinned1 == IF IsNone(arg) THEN pinned ELSE arg
        nf == get_normalization_frequency(chain, grid, pinned1)
    IN  IF chain = <<>>
        THEN [pinned |-> pinned1, out |-> ReturnReal(<<Round3(1, 0)>>)]
        ELSE IF nf.kind = "raise"
        THEN [pinned |-> pinned1, out |-> nf]
        ELSE [pinned |-> pinned1,
              out |-> ReturnReal(<<Round3(
                          CAbs(SensitivityProduct(chain,
                                  IF IsNone(grid) \/ grid.v = <<>>
                                  THEN nf.val[1] ELSE grid.v[1])),
                          Len(chain))>>)]

\* compute_instrument_sensitivity reading the normalization frequency
\* before it looks at the chain.
compute_instrument_sensitivity_ReadsFirst(chain, grid, pinned, arg) ==
    LET pinned1 == IF IsNone(arg) THEN pinned ELSE arg
        nf == get_normalization_frequency(chain, grid, pinned1)
    IN  IF nf.kind = "raise"
        THEN [pinned |-> pinned1, out |-> nf]
        ELSE [pinned |-> pinned1,
              out |-> ReturnReal(<<Round3(
                          CAbs(SensitivityProduct(chain, nf.val[1])),
                          Len(chain))>>)]

\* compute_instrument_sensitivity (lines 266-285): the pinned frequency
\* after the call, and its outcome.
compute_instrument_sensitivity(chain, grid, pinned, arg) ==
    LET pinned1 == IF IsNone(arg) THEN pinned ELSE arg
        nf == get_normalization_frequency(chain, grid, pinned1)
    IN  IF chain = <<>>
        THEN [pinned |-> pinned1, out |-> ReturnReal(<<Round3(1, 0)>>)]
        ELSE IF nf.kind = "raise"
        THEN [pinned |-> pinned1, out |-> nf]
        ELSE [pinned |-> pinned1,
              out |-> ReturnReal(<<Round3(
                          CAbs(SensitivityProduct(chain, nf.val[1])),
                          Len(chain))>>)]

\* units_in (lines 287-292)
units_in(chain) ==
    IF chain = <<>> THEN Raise("IndexError") ELSE ReturnStr(chain[1].units_in)

\* units_out taking the first stage instead of the last.
units_out_First(chain) ==
    IF chain = <<>> THEN Raise("IndexError") ELSE ReturnStr(chain[1].units_out)

\* units_out (lines 294-299)
units_out(chain) ==
    IF chain = <<>> THEN Raise("IndexError")
    ELSE ReturnStr(chain[Len(chain)].units_out)

\* Every coefficient filter replaced, whatever its units.
ExportedFilter_EveryCoefficient(f) ==
    IF f.type = "coefficient"
    THEN [Stage(f.name, "PoleZeroFilter", "zpk", f.units_in, f.units_out,
                f.gain, 0, FALSE, TRUE, <<>>)
             EXCEPT !.comments = f.comments]
    ELSE f

\* to_obspy, lines 345-355: the filter whose to_obspy makes the stage for
\* f.  A coefficient filter that does not give counts is replaced by a new
\* PoleZeroFilter with its gain, units, comments and name.
ExportedFilter(f) ==
    IF f.type = "coefficient" /\ f.units_out # "count"
    THEN [Stage(f.name, "PoleZeroFilter", "zpk", f.units_in, f.units_out,
                f.gain, 0, FALSE, TRUE, <<>>)
             EXCEPT !.comments = f.comments]
    ELSE f

\* to_obspy numbering the stages from 0.
to_obspy_FromZero(chain, grid, pinned, sample_rate) ==
    LET sensitivity ==
            compute_instrument_sensitivity(chain, grid, pinned, NoneV).out
        nf == get_normalization_frequency(chain, grid, pinned)
    IN  IF sensitivity.kind = "raise" THEN sensitivity
        ELSE IF units_in(chain).kind = "raise" THEN units_in(chain)
        ELSE ReturnResponse(
                 <<sensitivity.val[1], nf.val[1]>>,
                 <<units_in(chain).msg[1], units_out(chain).msg[1]>>,
                 [ii \in 1..Len(chain) |->
                     StageToObspy(ExportedFilter(chain[ii]), ii - 1, nf.val[1],
                                  sample_rate)])

\* to_obspy writing the pole-zero form of a coefficient stage into the
\* chain.
to_obspy_engine_PromotesInPlace(chain, grid, pinned) ==
    [chain |-> [ii \in 1..Len(chain) |-> ExportedFilter(chain[ii])],
     pinned |-> compute_instrument_sensitivity(chain, grid, pinned, NoneV).pinned]

\* to_obspy (lines 318-373): the engine it leaves behind.  The chain is
\* only iterated, a promoted stage is a new PoleZeroFilter (line 348), and
\* the pinned frequency is what compute_instrument_sensitivity() leaves.
to_obspy_engine(chain, grid, pinned) ==
    [chain |-> [ii \in 1..Len(chain) |-> chain[ii]],
     pinned |-> compute_instrument_sensitivity(chain, grid, pinned, NoneV).pinned]

\* to_obspy (lines 318-373): what it returns or raises.
to_obspy(chain, grid, pinned, sample_rate) ==
    LET sensitivity ==
            compute_instrument_sensitivity(chain, grid, pinned, NoneV).out
        nf == get_normalization_frequency(chain, grid, pinned)
    IN  IF sensitivity.kind = "raise" THEN sensitivity
        ELSE IF units_in(chain).kind = "raise" THEN units_in(chain)
        ELSE ReturnResponse(
                 <<sensitivity.val[1], nf.val[1]>>,
                 <<units_in(chain).msg[1], units_out(chain).msg[1]>>,
                 [ii \in 1..Len(chain) |->
                     StageToObspy(ExportedFilter(chain[ii]), ii, nf.val[1],
                                  sample_rate)])

ComputeInstrumentSensitivity ==
    /\ UNCHANGED collaborators
    /\ \E arg \in NormalizationInputs :
           LET call == compute_instrument_sensitivity(
                           filters_list, frequencies, normalization_frequency, arg)
           IN  /\ lastOp' = "compute_instrument_sensitivity"
               /\ lastArgs' = [NoArgs EXCEPT !.value = arg]
               /\ normalization_frequency' = call.pinned
               /\ result' = call.out
               /\ UNCHANGED <<filters_list, frequencies>>

\* units_in read
UnitsIn ==
    /\ UNCHANGED collaborators
    /\ /\ lastOp' = "units_in"
       /\ lastArgs' = NoArgs
       /\ result' = units_in(filters_list)
       /\ UNCHANGED <<filters_list, frequencies, normalization_frequency>>

\* units_out read
UnitsOut ==
    /\ UNCHANGED collaborators
    /\ /\ lastOp' = "units_out"
       /\ lastArgs' = NoArgs
       /\ result' = units_out(filters_list)
       /\ UNCHANGED <<filters_list, frequencies, normalization_frequency>>

\* Values handed to to_obspy as sample_rate.
SampleRates == {Float(1), Float(8)}

ToObspy ==
    /\ UNCHANGED collaborators
    /\ \E sample_rate \in SampleRates :
           LET after == to_obspy_engine(filters_list, frequencies,
                                        normalization_frequency)
           IN  /\ lastOp' = "to_obspy"
               /\ lastArgs' = [NoArgs EXCEPT !.value = sample_rate]
               /\ result' = to_obspy(filters_list, frequencies,
                                     normalization_frequency, sample_rate.v[1])
               /\ filters_list' = after.chain
               /\ normalization_frequency' = after.pinned
               /\ UNCHANGED frequencies

\* total_delay read
TotalDelay ==
    /\ lastOp' = "total_delay"
    /\ lastArgs' = NoArgs
    /\ result' = total_delay(filters_list)
    /\ UNCHANGED <<filters_list, frequencies, normalization_frequency>>
    /\ UNCHANGED collaborators

\* filters_list read (lines 60-63)
FiltersList ==
    /\ lastOp' = "filters_list"
    /\ lastArgs' = NoArgs
    /\ result' = ReturnList(filters_list)
    /\ UNCHANGED <<filters_list, frequencies, normalization_frequency>>
    /\ UNCHANGED collaborators

\* non_delay_filters read
NonDelayFilters ==
    /\ lastOp' = "non_delay_filters"
    /\ lastArgs' = NoArgs
    /\ result' = ReturnList(non_delay_filters(filters_list))
    /\ UNCHANGED <<filters_list, frequencies, normalization_frequency>>
    /\ UNCHANGED collaborators

\* delay_filters read
DelayFilters ==
    /\ lastOp' = "delay_filters"
    /\ lastArgs' = NoArgs
    /\ result' = ReturnList(delay_filters(filters_list))
    /\ UNCHANGED <<filters_list, frequencies, normalization_frequency>>
    /\ UNCHANGED collaborators

\* The caller pops the first stage off the list the last read handed out,
\* as complex_response does with its working list (lines 256, 259).  The
\* stored chain loses the stage when that list is the stored list.
PopView ==
    /\ lastOp \in {"filters_list", "non_delay_filters", "delay_filters"}
    /\ result.stages # <<>>
    /\ lastOp' = "list.pop"
    /\ lastArgs' = [NoArgs EXCEPT !.value = [t |-> "view", v |-> <<lastOp>>]]
    /\ result' = ReturnList(Tail(result.stages))
    /\ filters_list' = IF ViewIsStored(lastOp) THEN Tail(filters_list)
                       ELSE filters_list
    /\ UNCHANGED <<frequencies, normalization_frequency>>
    /\ UNCHANGED collaborators

-----------------------------------------------------------------------------
(* Experiment (timeseries/experiment.py) *)

\* A Survey object: its id and the rest of its metadata.
Survey(id, metadata) == [cls |-> "Survey", id |-> id, metadata |-> metadata]

\* Objects handed to add_survey: surveys with one of three ids, None being
\* the id of a Survey() left at its default, and two objects that are not
\* surveys.
SurveyInputs ==
    {Survey(id, metadata) : id \in {"None", "a", "b"},
                            metadata \in {"first", "second"}}
        \cup {[cls |-> "str", id |-> "a", metadata |-> "first"],
              [cls |-> "Station", id |-> "b", metadata |-> "second"]}

\* survey_names (lines 136-139)
survey_names(list) == [i \in 1..Len(list) |-> list[i].id]

\* has_survey (lines 141-153)
has_survey(list, survey_id) == survey_id \in Range(survey_names(list))

\* survey_index that never finds the id.
survey_index_NeverFound(list, survey_id) == 0

\* survey_index (lines 155-168): the position of the first survey with the
\* id, counted from 1; 0 stands for None.
survey_index(list, survey_id) ==
    IF has_survey(list, survey_id)
    THEN SetMin({i \in 1..Len(list) : survey_names(list)[i] = survey_id})
    ELSE 0

\* Survey.update(other): the metadata of other is written into the survey.
SurveyUpdate(survey, other) ==
    [survey EXCEPT !.id = other.id, !.metadata = other.metadata]

\* add_survey returned after logging its warning (lines 189-191).
ReturnWarned == Outcome("None", "", <<>>, 1, <<>>, <<"warning">>)

\* add_survey (lines 170-193): the list it leaves and its outcome.
add_survey(list, survey_obj) ==
    IF survey_obj.cls # "Survey"
    THEN [list |-> list, out |-> Raise("TypeError")]
    ELSE LET index == survey_index(list, survey_obj.id)
         IN  IF index # 0
             THEN [list |-> [list EXCEPT
                                ![index] = SurveyUpdate(@, survey_obj)],
                   out |-> ReturnWarned]
             ELSE [list |-> Append(list, survey_obj), out |-> ReturnNone]

AddSurvey ==
    \E survey_obj \in SurveyInputs :
        LET call == add_survey(surveys, survey_obj)
        IN  /\ lastOp' = "add_survey"
            /\ lastArgs' = [NoArgs EXCEPT !.value = survey_obj]
            /\ surveys' = call.list
            /\ result' = call.out
            /\ UNCHANGED <<filters_list, frequencies, normalization_frequency,
                           bands, filled>>

\* has_survey and survey_index read
SurveyIndex ==
    \E survey_id \in {"None", "a", "b"} :
        LET index == survey_index(surveys, survey_id)
        IN  /\ lastOp' = "survey_index"
            /\ lastArgs' = [NoArgs EXCEPT
                               !.value = [t |-> "str", v |-> <<survey_id>>]]
            /\ result' = IF index = 0 THEN ReturnNone
                         ELSE ReturnReal(<<index - 1>>)
            /\ UNCHANGED <<filters_list, frequencies, normalization_frequency,
                           surveys, bands, filled>>

-----------------------------------------------------------------------------
(* DecimationLevel (transfer_functions/processing/aurora/decimation_level.py) *)

\* A Band object, a dict describing a band, and an object that is neither.
Band(name) == [cls |-> "Band", name |-> name]

BandDict(name) == [cls |-> "dict", name |-> name]

NOTABAND == [cls |-> "int", name |-> "3"]

\* Band().from_dict(obj): the band the dict describes.
BandFromDict(obj) == Band(obj.name)

\* The entries of a list handed to the bands setter, and the other values
\* handed to it.
BandEntries == {Band("low"), Band("high"), BandDict("mid"), NOTABAND}

BandInputs ==
    {Band("low"), NOTABAND, [cls |-> "tuple", name |-> "()"]}
        \cup {[cls |-> "list", v |-> l] : l \in SeqsUpTo(BandEntries, MaxBands)}

\* Lines 87-93 and 108-113: the band stored for an entry.
StoredBand(obj) == IF obj.cls = "dict" THEN BandFromDict(obj) ELSE obj

\* bands setter (lines 68-97): the list it leaves and its outcome.  A list
\* is stored entry by entry into a list emptied first (line 81); the first
\* entry that is neither a Band nor a dict raises and ends the loop.
set_bands(old, value) ==
    IF value.cls = "Band"
    THEN [list |-> <<value>>, out |-> ReturnNone]
    ELSE IF value.cls = "list"
    THEN LET bad == {i \in 1..Len(value.v) :
                        value.v[i].cls \notin {"Band", "dict"}}
             n == IF bad = {} THEN Len(value.v) ELSE SetMin(bad) - 1
         IN  [list |-> [i \in 1..n |-> StoredBand(value.v[i])],
              out |-> IF bad = {} THEN ReturnNone ELSE Raise("TypeError")]
    ELSE [list |-> old, out |-> Raise("TypeError")]

\* add_band (lines 99-115)
add_band(old, band) ==
    IF band.cls \notin {"Band", "dict"}
    THEN [list |-> old, out |-> Raise("TypeError")]
    ELSE [list |-> Append(old, StoredBand(band)), out |-> ReturnNone]

SetBands ==
    \E value \in BandInputs :
        LET call == set_bands(bands, value)
        IN  /\ lastOp' = "bands.setter"
            /\ lastArgs' = [NoArgs EXCEPT !.value = value]
            /\ bands' = call.list
            /\ result' = call.out
            /\ UNCHANGED <<filters_list, frequencies, normalization_frequency,
                           surveys, filled>>

AddBand ==
    \E band \in BandEntries :
        LET call == add_band(bands, band)
        IN  /\ Len(bands) < MaxBands
            /\ lastOp' = "add_band"
            /\ lastArgs' = [NoArgs EXCEPT !.value = band]
            /\ bands' = call.list
            /\ result' = call.out
            /\ UNCHANGED <<filters_list, frequencies, normalization_frequency,
                           surveys, filled>>

-----------------------------------------------------------------------------
(* BaseTranslator.read_xml_comment (timeseries/stationxml/utils.py).  A    *)
(* string is the sequence of its characters; a dict is the sequence of its *)
(* <<key, value>> items in insertion order.                                *)

Str(chars) == [t |-> "str", v |-> chars]

\* str.find(c): the index of the first c counted from 0, -1 if there is none
Find(str, c) ==
    LET at == {i \in 1..Len(str) : str[i] = c}
    IN  IF at = {} THEN -1 ELSE SetMin(at) - 1

\* str.count(c)
Count(str, c) == Cardinality({i \in 1..Len(str) : str[i] = c})

\* str.split(c, 1): one piece when c is absent, else what is before the
\* first c and what is after it
Split1(str, c) ==
    LET at == Find(str, c)
    IN  IF at < 0 THEN <<str>>
        ELSE <<SubSeq(str, 1, at), SubSeq(str, at + 2, Len(str))>>

\* str.strip()
RECURSIVE Strip(_)
Strip(str) ==
    IF str # <<>> /\ str[1] = " " THEN Strip(Tail(str))
    ELSE IF str # <<>> /\ str[Len(str)] = " "
    THEN Strip(SubSeq(str, 1, Len(str) - 1))
    ELSE str

\* str.replace(c, by)
RECURSIVE Replace(_, _, _)
Replace(str, c, by) ==
    IF str = <<>> THEN <<>>
    ELSE (IF str[1] = c THEN by ELSE <<str[1]>>) \o Replace(Tail(str), c, by)

\* str.lower(), for the letters of the subjects below
Lower(str) ==
    [i \in 1..Len(str) |->
        IF str[i] = "M" THEN "m" ELSE IF str[i] = "T" THEN "t" ELSE str[i]]

\* dict[key] = value
DictSet(dict, key, value) ==
    IF \E i \in 1..Len(dict) : dict[i][1] = key
    THEN [i \in 1..Len(dict) |->
             IF dict[i][1] = key THEN <<key, value>> ELSE dict[i]]
    ELSE Append(dict, <<key, value>>)

\* The comments handed to read_xml_comment.
CommentSubjects == {<<" ", "M", "T", " ", "u">>, <<"u">>}

CommentValues ==
    {<<"a", ":", " ", "b", ",", " ", "c", ":", "d">>,
     <<"a", ":", " ", "b", ":", "c", ",", " ", "d", ":", "e">>,
     <<"b">>,
     <<"a", ":", "b">>,
     <<"c", ":", "d", ":", "e">>,
     <<"d", ":", ":", "e">>,
     <<"e", ":", " ", "b", ":", "c", ",", " ", "d">>,
     <<"a", ":", "b", ":", "c", ":", "d", ",", " ", "e">>,
     <<" ", "a", " ", ":", " ", "d", " ">>}

Comments ==
    {[subject |-> subject, value |-> value] :
        subject \in CommentSubjects, value \in CommentValues}

\* The dict that is the default of filled when a call starts, if parse
\* were defined once and kept its default from call to call.
ParseDefault_DefinedOnce(accumulators) ==
    IF accumulators = <<>> THEN <<>> ELSE accumulators[Len(accumulators)]

\* Line 78: def parse(comment_string, filled={}) is executed by every call
\* of read_xml_comment, so the default of filled is a dict made by that
\* call, whatever the parse functions before it have left in theirs.
ParseDefault(accumulators) == <<>>

\* parse (lines 78-117): the dict it returns
RECURSIVE parse(_, _)
parse(comment_string, dict) ==
    LET parts == Split1(comment_string, ":")
        k == parts[1]
    IN  IF Len(parts) = 2
        THEN LET other == parts[2]
                 colon == Find(other, ":")
                 comma == Find(other, ",")
                 halves == Split1(other, ",")
             IN  IF colon >= 0 /\ comma >= 0
                 THEN IF colon < comma
                      THEN IF Count(other, ":") > 1
                           THEN parse(Strip(halves[2]),
                                      DictSet(dict, k,
                                          Str(Replace(Strip(halves[1]), ":",
                                                      <<"-", "-">>))))
                           ELSE DictSet(dict, k,
                                        Str(Replace(other, ":", <<"-", "-">>)))
                      ELSE parse(Strip(halves[2]),
                                 DictSet(dict, k, Str(Strip(halves[1]))))
                 ELSE IF colon > 0
                 THEN DictSet(dict, k, Str(Strip(Split1(other, ":")[1])))
                 ELSE DictSet(dict, k, Str(Strip(other)))
        ELSE DictSet(dict, k, NoneV)

\* The (key, value) read_xml_comment returns: value is a dict or the
\* comment's own string.
ReturnComment(key, kind, str, dict) ==
    [Outcome(kind, "", <<>>, 1, str, key) EXCEPT !.stages = dict]

\* read_xml_comment (lines 67-126) with default as the default of filled:
\* what it returns, and that default after the call.
read_xml_comment(comment, default) ==
    LET key == Lower(Replace(Strip(comment.subject), " ", <<"_">>))
    IN  IF Find(comment.value, ":") >= 0
        THEN LET value == parse(comment.value, default)
             IN  [out |-> ReturnComment(key, "dict", <<>>, value),
                  default |-> value]
        ELSE [out |-> ReturnComment(key, "str", comment.value, <<>>),
              default |-> default]

ReadXmlComment ==
    \E comment \in Comments :
        LET call == read_xml_comment(comment, ParseDefault(filled))
        IN  /\ Len(filled) < MaxCalls
            /\ lastOp' = "read_xml_comment"
            /\ lastArgs' = [NoArgs EXCEPT !.value = comment]
            /\ result' = call.out
            /\ filled' = Append(filled, call.default)
            /\ UNCHANGED <<filters_list, frequencies, normalization_frequency,
                           surveys, bands>>

-----------------------------------------------------------------------------
(* Specifications *)

Next ==
    \/ SetFilters
    \/ SetFrequencies
    \/ SetNormalizationFrequency
    \/ ComplexResponse
    \/ PassBand
    \/ NormalizationFrequency
    \/ ComputeInstrumentSensitivity
    \/ CheckConsistencyOfUnits
    \/ UnitsIn
    \/ UnitsOut
    \/ ToObspy

Spec == Init /\ [][Next]_vars

\* The views of the chain and the delay, over engines holding any chain of
\* ViewChains.
InitViews ==
    /\ filters_list \in ViewChains
    /\ frequencies = DefaultFrequencies
    /\ normalization_frequency = NoneV
    /\ lastOp = "__init__"
    /\ lastArgs = NoArgs
    /\ result = ReturnNone
    /\ surveys = <<>>
    /\ bands = <<>>
    /\ filled = <<>>

NextViews ==
    \/ TotalDelay
    \/ FiltersList
    \/ NonDelayFilters
    \/ DelayFilters
    \/ PopView

SpecViews == InitViews /\ [][NextViews]_vars

\* An Experiment made with no surveys (lines 42-47).
NextExperiment ==
    \/ AddSurvey
    \/ SurveyIndex

SpecExperiment == Init /\ [][NextExperiment]_vars

\* A DecimationLevel made with no bands (lines 41-50).
NextDecimation ==
    \/ SetBands
    \/ AddBand

SpecDecimation == Init /\ [][NextDecimation]_vars

\* A translator reading comments one after the other.
NextComments == ReadXmlComment

SpecComments == Init /\ [][NextComments]_vars

TypeOK ==
    /\ filters_list \in Chains
    /\ frequencies.t \in {"None", "ndarray"}
    /\ normalization_frequency \in NormalizationInputs

-----------------------------------------------------------------------------
(* Properties.  A property about a call is stated over the step that makes *)
(* the call: unprimed variables are the engine before it, primed ones the  *)
(* engine, the arguments and the outcome after it.                         *)

EvaluationCalls ==
    {"complex_response", "pass_band", "normalization_frequency",
     "compute_instrument_sensitivity"}

\* A frequencies argument that is omitted or is a sequence.
UsableFrequencies(freq) == freq.t \in {"None", "list", "tuple", "ndarray"}

\* The stages complex_response is to multiply, by position in the chain.
SelectedPositions(chain, args) ==
    {i \in 1..Len(chain) :
        /\ args.include_delay \/ chain[i].type # "time delay"
        /\ args.include_decimation \/ ~chain[i].decimation_active}

\* Product over the positions P of the stages' responses at frequency f.
RECURSIVE ProductAt(_, _, _)
ProductAt(chain, P, f) ==
    IF P = {} THEN <<1, 0>>
    ELSE LET i == SetMax(P)
         IN  CMul(ProductAt(chain, P \ {i}, f), StageResponseAt(chain[i], f))

\* C1: every evaluation call leaves filters_list as it was, and changes
\* nothing but the stored grid, and the pinned normalization frequency when
\* one is passed to compute_instrument_sensitivity.
C1_EvaluationKeepsChain ==
    [][lastOp' \in EvaluationCalls =>
          /\ filters_list' = filters_list
          /\ \/ normalization_frequency' = normalization_frequency
             \/ /\ lastOp' = "compute_instrument_sensitivity"
                /\ ~IsNone(lastArgs'.value)
                /\ normalization_frequency' = lastArgs'.value]_vars

\* C2: when the working chain is empty, complex_response returns all ones,
\* as many as the frequency grid has points, whether or not frequencies is
\* passed, and does not raise.
C2_EmptyChainAllOnes ==
    [][(/\ lastOp' = "complex_response"
        /\ UsableFrequencies(lastArgs'.frequencies)
        /\ ~IsNone(frequencies')
        /\ SelectedPositions(filters_list, lastArgs') = {})
       => result' = ReturnArray([i \in 1..Len(frequencies'.v) |-> <<1, 0>>], 1)]_vars

\* C3: for every chain, complex_response returns an array as long as the
\* frequency grid after the call, whether frequencies is passed or omitted.
C3_ResponseLengthIsGridLength ==
    [][(/\ lastOp' = "complex_response"
        /\ UsableFrequencies(lastArgs'.frequencies)
        /\ ~IsNone(frequencies'))
       => /\ result'.kind = "array"
          /\ Len(result'.h) = Len(frequencies'.v)]_vars

\* C4: for a non-empty working chain, complex_response returns, at every
\* point of the frequency grid, the product of exactly the stages selected
\* by include_delay and include_decimation, each taken once.
C4_ProductOfSelectedStages ==
    [][(/\ lastOp' = "complex_response"
        /\ UsableFrequencies(lastArgs'.frequencies)
        /\ ~IsNone(frequencies')
        /\ SelectedPositions(filters_list, lastArgs') # {})
       => /\ result'.kind = "array"
          /\ result'.h =
               [i \in 1..Len(frequencies'.v) |->
                   ProductAt(filters_list,
                             SelectedPositions(filters_list, lastArgs'),
                             frequencies'.v[i])]
          /\ ~lastArgs'.normalize =>
                result'.den =
                   Pow10(2 * Cardinality(
                                SelectedPositions(filters_list, lastArgs')))]_vars

\* C5: the filters_list setter stores the empty chain for None and [],
\* stores a list of recognized filters as it is, and for anything else
\* raises TypeError and keeps the chain it had.
C5_SetFiltersAllOrNothing ==
    [][lastOp' = "filters_list.setter" =>
          LET input == lastArgs'.value
          IN  IF IsNone(input) \/ (input.t = "list" /\ input.v = <<>>)
              THEN filters_list' = <<>> /\ result' = ReturnNone
              ELSE IF /\ input.t = "list"
                      /\ \A i \in 1..Len(input.v) :
                            input.v[i].cls \in
                               {"PoleZeroFilter", "CoefficientFilter",
                                "TimeDelayFilter",
                                "FrequencyResponseTableFilter", "FIRFilter"}
              THEN filters_list' = input.v /\ result' = ReturnNone
              ELSE filters_list' = filters_list /\ result' = Raise("TypeError")]_vars

\* A list with a filter and a non-filter was refused while a chain was held.
C5_Witness ==
    /\ lastOp = "filters_list.setter"
    /\ result = Raise("TypeError")
    /\ lastArgs.value.t = "list"
    /\ \E i, j \in 1..Len(lastArgs.value.v) :
          /\ lastArgs.value.v[i].cls = "str"
          /\ lastArgs.value.v[j].cls # "str"
    /\ Len(filters_list) >= 2

\* Positions i whose stage takes other units than the stage before it gives.
Mismatches(chain) ==
    {i \in 2..Len(chain) : chain[i - 1].units_out # chain[i].units_in}

\* C6: check_consistency_of_units returns True exactly when every stage
\* takes the units the stage before it gives; otherwise it raises ValueError
\* for the first such pair, naming its second stage and the two units.
C6_UnitsConsistency ==
    lastOp = "check_consistency_of_units" =>
        IF Mismatches(filters_list) = {}
        THEN result = ReturnTrue
        ELSE LET i == SetMin(Mismatches(filters_list))
             IN  result = RaiseMsg("ValueError",
                                   <<filters_list[i - 1].units_out,
                                     filters_list[i].units_in,
                                     filters_list[i].name>>)

\* C7: check_consistency_of_units returns True for every chain of no stage
\* or of one stage.
C7_ShortChainsConsistent ==
    (lastOp = "check_consistency_of_units" /\ Len(filters_list) <= 1)
        => result = ReturnTrue

\* The stages of the chain that give a pass band on the grid.
Contributing(chain, grid) ==
    {i \in 1..Len(chain) :
        chain[i].has_pass_band /\ StagePassBand(chain[i], grid.v) # <<>>}

\* C8: with a frequency grid set and no stage giving a pass band, pass_band
\* returns None and does not raise.
C8_NoPassBandIsNone ==
    (/\ lastOp = "pass_band"
     /\ ~IsNone(frequencies)
     /\ Contributing(filters_list, frequencies) = {})
        => result = ReturnNone

\* C9: when some stage gives a pass band, pass_band returns the largest of
\* the stages' band minima and the smallest of their band maxima, as they
\* are, also when the first exceeds the second.
C9_PassBandIntersection ==
    (/\ lastOp = "pass_band"
     /\ ~IsNone(frequencies)
     /\ Contributing(filters_list, frequencies) # {})
        => LET C == Contributing(filters_list, frequencies)
               band(i) == Range(StagePassBand(filters_list[i], frequencies.v))
           IN  result = ReturnReal(<<SetMax({SetMin(band(i)) : i \in C}),
                                    SetMin({SetMax(band(i)) : i \in C})>>)

\* pass_band returned an inverted pair for a chain with a skipped stage.
C9_Witness ==
    /\ lastOp = "pass_band"
    /\ result.kind = "real"
    /\ result.val[1] > result.val[2]
    /\ Cardinality(Contributing(filters_list, frequencies)) >= 2
    /\ Cardinality(Contributing(filters_list, frequencies)) < Len(filters_list)

\* C10: with no frequency grid stored, pass_band raises ValueError for
\* every chain and leaves the engine as it was.
C10_PassBandNeedsGrid ==
    [][(lastOp' = "pass_band" /\ IsNone(frequencies))
       => /\ result' = Raise("ValueError")
          /\ UNCHANGED <<filters_list, frequencies,
                         normalization_frequency>>]_vars

\* pass_band was read on an empty chain with no grid.
C10_Witness ==
    /\ lastOp = "pass_band"
    /\ IsNone(frequencies)
    /\ filters_list = <<>>
    /\ result = Raise("ValueError")

\* The calls that assign the pinned normalization frequency.
Pins(op, args) ==
    \/ op = "normalization_frequency.setter"
    \/ op = "compute_instrument_sensitivity" /\ ~IsNone(args.value)

\* C11: once a normalization frequency is pinned, every read returns it,
\* whatever happens to the grid and the chain and whatever is evaluated,
\* until it is assigned again.
C11_PinnedFrequencyIsSticky ==
    [][(~IsNone(normalization_frequency) /\ ~Pins(lastOp', lastArgs'))
       => /\ normalization_frequency' = normalization_frequency
          /\ lastOp' = "normalization_frequency" =>
                result' = ReturnReal(normalization_frequency.v)]_vars

\* The pinned frequency was read where the pass band gives another value.
C11_Witness ==
    /\ lastOp = "normalization_frequency"
    /\ normalization_frequency = Float(1)
    /\ result = ReturnReal(<<1>>)
    /\ pass_band(filters_list, frequencies).kind = "real"
    /\ pass_band(filters_list, frequencies).val = <<3, 3>>

\* The pass band of the chain on the grid: <<low, high>>, or <<>> when no
\* grid is stored or no stage gives a band.
ExpectedBand(chain, grid) ==
    IF IsNone(grid) \/ Contributing(chain, grid) = {} THEN <<>>
    ELSE LET C == Contributing(chain, grid)
             band(i) == Range(StagePassBand(chain[i], grid.v))
         IN  <<SetMax({SetMin(band(i)) : i \in C}),
               SetMin({SetMax(band(i)) : i \in C})>>

\* C12: with nothing pinned, reading normalization_frequency returns the
\* mean of the pass band rounded to three decimals when there is a pass
\* band, and None without raising when there is none; it pins nothing.
C12_DerivedFrequency ==
    [][(lastOp' = "normalization_frequency" /\ IsNone(normalization_frequency))
       => LET pb == ExpectedBand(filters_list, frequencies)
          IN  /\ IsNone(normalization_frequency')
              /\ result' = IF pb = <<>> THEN ReturnNone
                           ELSE ReturnReal(<<RoundDiv(pb[1] + pb[2], 2)>>)]_vars

\* The frequency compute_instrument_sensitivity is to evaluate at: the
\* argument, else the pinned value, else the rounded mean of the pass band;
\* <<>> when there is none of them.
SensitivityFrequency(chain, grid, pinned, arg) ==
    IF ~IsNone(arg) THEN arg.v
    ELSE IF ~IsNone(pinned) THEN pinned.v
    ELSE IF ExpectedBand(chain, grid) = <<>> THEN <<>>
    ELSE <<RoundDiv(ExpectedBand(chain, grid)[1]
                      + ExpectedBand(chain, grid)[2], 2)>>

\* C13: compute_instrument_sensitivity returns the magnitude, rounded to
\* three decimals, of the product of the responses of all the stages of
\* filters_list at the normalization frequency, and pins the argument when
\* one is given.
C13_SensitivityAtNormalizationFrequency ==
    [][lastOp' = "compute_instrument_sensitivity" =>
          LET f == SensitivityFrequency(filters_list, frequencies,
                                        normalization_frequency,
                                        lastArgs'.value)
          IN  /\ ~IsNone(lastArgs'.value) =>
                    normalization_frequency' = lastArgs'.value
              /\ (f # <<>> /\ filters_list # <<>>) =>
                    result' = ReturnReal(<<Round3(
                        CAbs(ProductAt(filters_list, 1..Len(filters_list),
                                        f[1])),
                        Len(filters_list))>>)]_vars

\* A sensitivity was computed at a frequency passed in, for a chain with a
\* time delay stage whose exact magnitude has more than three decimals.
C13_Witness ==
    /\ lastOp = "compute_instrument_sensitivity"
    /\ ~IsNone(lastArgs.value)
    /\ normalization_frequency = lastArgs.value
    /\ result.kind = "real"
    /\ \E i \in 1..Len(filters_list) : filters_list[i].type = "time delay"
    /\ Len(filters_list) = 3
    /\ CAbs(ProductAt(filters_list, 1..3, lastArgs.value.v[1])) % 1000 # 0
    /\ ~IsNone(frequencies)
    /\ frequencies.v[1] # lastArgs.value.v[1]

\* C14: whatever is evaluated on the engine, the scalar that
\* compute_instrument_sensitivity(f) returns for the chain that was set
\* stays the same: no evaluation call changes it.
C14_SensitivityIndependentOfHistory ==
    [][lastOp' \in EvaluationCalls =>
          \A f \in NormalizationInputs \ {NoneV} :
              compute_instrument_sensitivity(
                  filters_list', frequencies', normalization_frequency', f).out
              = compute_instrument_sensitivity(
                  filters_list, frequencies, normalization_frequency, f).out]_vars

\* C15: to_obspy exports one response stage per stage of filters_list, in
\* the order of the chain, numbered 1, 2, ..., n, every one with the
\* normalization frequency of the sensitivity header and with the
\* sample_rate passed in.
C15_ExportedStagesNumbered ==
    lastOp = "to_obspy" =>
        /\ (/\ filters_list # <<>>
            /\ SensitivityFrequency(filters_list, frequencies,
                                    normalization_frequency, NoneV) # <<>>)
              => result.kind = "response"
        /\ result.kind = "response" =>
              /\ Len(result.stages) = Len(filters_list)
              /\ \A i \in 1..Len(result.stages) :
                    /\ result.stages[i].stage_number = i
                    /\ result.stages[i].filter.name = filters_list[i].name
                    /\ result.stages[i].normalization_frequency = result.val[2]
                    /\ result.stages[i].sample_rate = lastArgs.value.v[1]

\* Three stages were exported with a sample rate other than the default.
C15_Witness ==
    /\ lastOp = "to_obspy"
    /\ result.kind = "response"
    /\ Len(result.stages) = 3
    /\ lastArgs.value = Float(8)

\* C16: to_obspy exports a stage through a new pole-zero filter with the
\* same gain, units, name and comments exactly when the stage is a
\* coefficient stage that does not give counts; every other stage is
\* exported through itself.
C16_CoefficientPromotion ==
    (lastOp = "to_obspy" /\ result.kind = "response") =>
        \A i \in 1..Len(filters_list) :
            LET f == filters_list[i]
                e == result.stages[i].filter
            IN  IF f.type = "coefficient" /\ f.units_out # "count"
                THEN /\ e.cls = "PoleZeroFilter" /\ e.type = "zpk"
                     /\ e.gain = f.gain
                     /\ e.units_in = f.units_in /\ e.units_out = f.units_out
                     /\ e.name = f.name /\ e.comments = f.comments
                ELSE e = f

\* A chain with a coefficient stage giving volts and one giving counts was
\* exported.
C16_Witness ==
    /\ lastOp = "to_obspy"
    /\ result.kind = "response"
    /\ \E i, j \in 1..Len(filters_list) :
          /\ filters_list[i].type = "coefficient"
          /\ filters_list[i].units_out # "count"
          /\ result.stages[i].filter.type = "zpk"
          /\ filters_list[j].type = "coefficient"
          /\ filters_list[j].units_out = "count"
          /\ result.stages[j].filter.type = "coefficient"

\* C17: complex_response called with a frequency sequence stores it as the
\* grid; called without one it leaves the grid as it is.
C17_ResponseStoresGrid ==
    [][lastOp' = "complex_response" =>
          /\ lastArgs'.frequencies.t \in {"list", "tuple", "ndarray"} =>
                /\ frequencies'.t = "ndarray"
                /\ frequencies'.v = lastArgs'.frequencies.v
          /\ IsNone(lastArgs'.frequencies) => frequencies' = frequencies]_vars

\* complex_response was given a tuple and the grid holds its elements.
C17_Witness ==
    /\ lastOp = "complex_response"
    /\ lastArgs.frequencies.t = "tuple"
    /\ frequencies = NdArray(<<3, 2>>)
    /\ result.kind = "array"

\* C18: the frequencies setter stores None as unset and a list, tuple or
\* array as an array of the same elements; any other value raises TypeError
\* and leaves the grid as it was, also when it comes through
\* complex_response.
C18_SetFrequenciesValidates ==
    [][/\ lastOp' = "frequencies.setter" =>
             LET value == lastArgs'.value
             IN  IF IsNone(value)
                 THEN IsNone(frequencies') /\ result' = ReturnNone
                 ELSE IF value.t \in {"list", "tuple", "ndarray"}
                 THEN /\ frequencies'.t = "ndarray"
                      /\ frequencies'.v = value.v
                      /\ result' = ReturnNone
                 ELSE /\ frequencies' = frequencies
                      /\ result' = Raise("TypeError")
       /\ (/\ lastOp' = "complex_response"
           /\ ~UsableFrequencies(lastArgs'.frequencies))
             => /\ frequencies' = frequencies
                /\ filters_list' = filters_list
                /\ result' = Raise("TypeError")]_vars

\* complex_response refused a scalar and a grid set before is still stored.
C18_Witness ==
    /\ lastOp = "complex_response"
    /\ lastArgs.frequencies.t = "float"
    /\ result = Raise("TypeError")
    /\ frequencies = NdArray(<<3, 2>>)

C20_PeakNormalized ==
    [][(/\ lastOp' = "complex_response"
        /\ lastArgs'.normalize
        /\ result'.kind = "array"
        /\ SelectedPositions(filters_list, lastArgs') # {})
       => /\ result'.h =
               [i \in 1..Len(frequencies'.v) |->
                   ProductAt(filters_list,
                             SelectedPositions(filters_list, lastArgs'),
                             frequencies'.v[i])]
          /\ result'.den > 0
          /\ \A i \in 1..Len(result'.h) : CAbs(result'.h[i]) <= result'.den
          /\ \E i \in 1..Len(result'.h) : CAbs(result'.h[i]) = result'.den
          /\ normalization_frequency' = normalization_frequency]_vars

\* A response whose first point is not its largest was normalized while a
\* normalization frequency was pinned.
C20_Witness ==
    /\ lastOp = "complex_response"
    /\ lastArgs.normalize
    /\ result.kind = "array"
    /\ Len(result.h) >= 2
    /\ CAbs(result.h[1]) < result.den
    /\ ~IsNone(normalization_frequency)

\* C21: on an empty chain compute_instrument_sensitivity returns 1.0 and
\* raises nothing, with or without a pinned normalization frequency, a
\* frequency grid or an argument.
C21_EmptyChainSensitivityIsOne ==
    [][(lastOp' = "compute_instrument_sensitivity" /\ filters_list = <<>>)
       => result' = ReturnReal(<<Pow10(3)>>)]_vars

\* The sensitivity of an empty chain was computed with no grid, no pinned
\* frequency and no argument.
C21_Witness ==
    /\ lastOp = "compute_instrument_sensitivity"
    /\ filters_list = <<>>
    /\ IsNone(frequencies)
    /\ IsNone(normalization_frequency)
    /\ IsNone(lastArgs.value)
    /\ result = ReturnReal(<<Pow10(3)>>)

\* C25: a complex_response call that repeats the call before it, with the
\* same arguments and nothing in between, returns what that call returned.
C25_RepeatedCallSameResult ==
    [][(/\ lastOp = "complex_response"
        /\ lastOp' = "complex_response"
        /\ lastArgs' = lastArgs)
       => result' = result]_vars

\* C26: to_obspy leaves the engine as it was: the same stages in the same
\* order, a promoted coefficient stage still a coefficient stage, the same
\* grid, and the same pinned normalization frequency.
C26_ExportKeepsEngine ==
    [][lastOp' = "to_obspy" =>
          /\ filters_list' = filters_list
          /\ frequencies' = frequencies
          /\ normalization_frequency' = normalization_frequency]_vars

\* A chain with a promoted coefficient stage was exported by an engine with
\* no pinned normalization frequency.
C26_Witness ==
    /\ lastOp = "to_obspy"
    /\ result.kind = "response"
    /\ IsNone(normalization_frequency)
    /\ \E i \in 1..Len(filters_list) :
          /\ filters_list[i].type = "coefficient"
          /\ result.stages[i].filter.type = "zpk"

\* The positions of the time delay stages of a chain.
DelayPositions(chain) == {i \in 1..Len(chain) : chain[i].type = "time delay"}

\* The stages of chain at the positions P, in the order of the chain.
StagesAt(chain, P) ==
    [k \in 1..Cardinality(P) |->
        chain[CHOOSE i \in P : Cardinality({j \in P : j < i}) = k - 1]]

\* Sum of the delays of the stages at the positions P.
RECURSIVE DelayOver(_, _)
DelayOver(chain, P) ==
    IF P = {} THEN 0
    ELSE LET i == SetMax(P)
         IN  DelayOver(chain, P \ {i}) + chain[i].delay

\* C22: total_delay is the sum of the delays of the time delay stages of
\* filters_list, each position counted once, and 0.0 when there is none.
C22_TotalDelayIsSum ==
    lastOp = "total_delay" =>
        /\ result = ReturnReal(<<DelayOver(filters_list,
                                           DelayPositions(filters_list))>>)
        /\ DelayPositions(filters_list) = {} => result = ReturnReal(<<0>>)

\* The delay of a chain with two different time delay stages and another
\* stage between them was read.
C22_Witness ==
    /\ lastOp = "total_delay"
    /\ filters_list = <<DELAY, PZ, LAG>>
    /\ result = ReturnReal(<<DELAY.delay + LAG.delay>>)

\* C23: delay_filters is the time delay stages of filters_list and
\* non_delay_filters is all the others, each in the order of the chain, so
\* every stage is in exactly one of them; popping from either list leaves
\* the stored chain as it was.
C23_ViewsPartitionChain ==
    [][/\ lastOp' = "delay_filters" =>
             /\ filters_list' = filters_list
             /\ result' = ReturnList(StagesAt(filters_list,
                                              DelayPositions(filters_list)))
       /\ lastOp' = "non_delay_filters" =>
             /\ filters_list' = filters_list
             /\ result' = ReturnList(StagesAt(filters_list,
                              (1..Len(filters_list))
                                  \ DelayPositions(filters_list)))
       /\ (/\ lastOp' = "list.pop"
           /\ lastOp \in {"delay_filters", "non_delay_filters"})
             => filters_list' = filters_list]_vars

\* A stage was popped off the non_delay_filters of a chain that has delay
\* stages around other stages, and the chain still has them all.
C23_Witness ==
    /\ lastOp = "list.pop"
    /\ lastArgs.value.v = <<"non_delay_filters">>
    /\ filters_list = <<DELAY, PZ, COEF>>
    /\ result = ReturnList(<<COEF>>)

\* C24: the ids of the surveys are pairwise distinct after every
\* add_survey; an id already there updates that survey where it is, a new
\* id appends one survey at the end, and an object that is not a Survey
\* raises TypeError and changes nothing.
C24_SurveyIdsDistinct ==
    [][lastOp' = "add_survey" =>
          LET survey_obj == lastArgs'.value
              same == {i \in 1..Len(surveys) : surveys[i].id = survey_obj.id}
          IN  /\ \A i, j \in 1..Len(surveys') :
                    surveys'[i].id = surveys'[j].id => i = j
              /\ IF survey_obj.cls # "Survey"
                 THEN surveys' = surveys /\ result' = Raise("TypeError")
                 ELSE IF same # {}
                 THEN /\ Len(surveys') = Len(surveys)
                      /\ \A i \in 1..Len(surveys) :
                            /\ surveys'[i].id = surveys[i].id
                            /\ i \in same =>
                                  surveys'[i].metadata = survey_obj.metadata
                            /\ i \notin same => surveys'[i] = surveys[i]
                 ELSE surveys' = Append(surveys, survey_obj)]_vars

\* A survey whose id was already there was added to an Experiment of three
\* surveys, and the second of them carries its metadata.
C24_Witness ==
    /\ lastOp = "add_survey"
    /\ result = ReturnWarned
    /\ Len(surveys) = 3
    /\ lastArgs.value = Survey("a", "second")
    /\ surveys[2] = Survey("a", "second")
    /\ surveys[1].metadata = "first"

\* C27: a bands assignment or add_band that raises TypeError leaves the
\* stored bands as they were; one that succeeds leaves only Band objects,
\* in the order they were given.
C27_BandsAllOrNothing ==
    [][lastOp' \in {"bands.setter", "add_band"} =>
          LET value == lastArgs'.value
          IN  IF result' = Raise("TypeError")
              THEN bands' = bands
              ELSE /\ \A i \in 1..Len(bands') : bands'[i].cls = "Band"
                   /\ bands' =
                        IF lastOp' = "add_band"
                        THEN Append(bands, Band(value.name))
                        ELSE IF value.cls = "Band" THEN <<value>>
                        ELSE [i \in 1..Len(value.v) |-> Band(value.v[i].name)]]_vars

\* Whether the string part occurs in the string str.
IsInfix(part, str) ==
    \E a \in 0..Len(str) :
        /\ a + Len(part) <= Len(str)
        /\ SubSeq(str, a + 1, a + Len(part)) = part

\* C28: what read_xml_comment returns depends on its comment alone: it is
\* what a parse starting from an empty dict gives, and every key of a
\* returned dict is text of that comment, whatever was parsed before.
C28_CommentParsedAlone ==
    [][lastOp' = "read_xml_comment" =>
          LET comment == lastArgs'.value
          IN  /\ result' = read_xml_comment(comment, <<>>).out
              /\ \A i \in 1..Len(result'.stages) :
                    IsInfix(result'.stages[i][1], comment.value)]_vars

\* A comment was parsed into a dict after a comment that had left a key the
\* later one does not have.
C28_Witness ==
    /\ lastOp = "read_xml_comment"
    /\ Len(filled) = 2
    /\ result.kind = "dict"
    /\ \E i \in 1..Len(filled[1]) :
          \A j \in 1..Len(result.stages) :
              filled[1][i][1] # result.stages[j][1]

====
